---------------------------- MODULE Spec2Model ----------------------------
(***************************************************************************)
(* A state-machine model of ParticleFilter (src/src/particle_filter.cpp):  *)
(* init, prediction, dataAssociation, CalculateParticleWeight,             *)
(* updateWeights, resample and SetAssociations.                            *)
(*                                                                         *)
(* Numbers.  The program computes in double.  The model computes exactly:  *)
(*   - positions are integers (grid units);                                *)
(*   - headings are integers counting quarter turns, so that sin and cos   *)
(*     are exact (Sin, Cos); a heading is never wrapped, as in the code;   *)
(*   - weights are non-negative rationals <<n, d>> in lowest terms.        *)
(* The random engines are default-seeded in every call (lines 38, 70), so   *)
(* the draws of a call are one fixed sequence; the model offers a few such *)
(* sequences (NoiseSeqs).                                                  *)
(***************************************************************************)
EXTENDS Integers, Sequences, FiniteSets

(***************************************************************************)
(* Bounds of the model.                                                    *)
(***************************************************************************)
\* Population size.  The code fixes num_particles = 100 (line 35); the model
\* runs the same loops over a smaller population.
NumParticles == 2
\* Longest observation list passed to updateWeights / dataAssociation /
\* SetAssociations.
MaxObs == 2
\* Longest predicted list passed to a direct dataAssociation call.
MaxPred == 2
\* Number of operations in one run.
MaxSteps == 3
\* Largest squared offset q whose likelihood is still representable: beyond
\* it the likelihood underflows to 0, as exp() does in double.
MaxExponent == 2

(***************************************************************************)
(* Exact arithmetic on non-negative rationals <<n, d>>, d > 0.             *)
(***************************************************************************)
RECURSIVE GCD(_, _)
GCD(a, b) == IF b = 0 THEN a ELSE GCD(b, a % b)

Zero == <<0, 1>>
One == <<1, 1>>

Rat(n, d) == IF n = 0 THEN Zero ELSE LET g == GCD(n, d) IN <<n \div g, d \div g>>

RatMul(a, b) ==
  IF a[1] = 0 \/ b[1] = 0 THEN Zero
  ELSE LET g1 == GCD(a[1], b[2])
           g2 == GCD(b[1], a[2])
       IN  <<(a[1] \div g1) * (b[1] \div g2), (a[2] \div g2) * (b[2] \div g1)>>

RatAdd(a, b) ==
  LET g == GCD(a[2], b[2])
      l == (a[2] \div g) * b[2]
  IN  Rat(a[1] * (l \div a[2]) + b[1] * (l \div b[2]), l)

\* a / b, for b # 0
RatDiv(a, b) == RatMul(a, <<b[2], b[1]>>)

Pow2(k) == 2 ^ k

Abs(v) == IF v < 0 THEN -v ELSE v

\* sin and cos of a heading given in quarter turns
Sin(q) == CASE q % 4 = 0 -> 0 [] q % 4 = 1 -> 1 [] q % 4 = 2 -> 0 [] OTHER -> -1
Cos(q) == CASE q % 4 = 0 -> 1 [] q % 4 = 1 -> 0 [] q % 4 = 2 -> -1 [] OTHER -> 0

(***************************************************************************)
(* helper_functions.h (not part of the sources at hand): dist and          *)
(* multiv_prob, modelled from their description.                           *)
(***************************************************************************)
\* dist is the Euclidean distance.  Every use compares two distances, or a
\* distance with a non-negative range, so the model keeps the square.
distSq(x1, y1, x2, y2) == (x1 - x2) * (x1 - x2) + (y1 - y2) * (y1 - y2)

\* multiv_prob: exp(-(dx^2/(2 sx^2) + dy^2/(2 sy^2))) / (2 pi sx sy).  The
\* model fixes std_landmark so that the density is 16^(-(dx^2+dy^2)) / 4, and
\* lets it underflow to 0 beyond MaxExponent.
multiv_prob(x_obs, y_obs, mu_x, mu_y) ==
  LET q == distSq(x_obs, y_obs, mu_x, mu_y)
  IN  IF q > MaxExponent THEN Zero ELSE <<1, 4 * Pow2(4 * q)>>

(***************************************************************************)
(* Inputs.                                                                 *)
(***************************************************************************)
\* map_landmarks.landmark_list: id_i, x_f, y_f
MapLandmarks == << [id |-> 1, x |-> 0, y |-> 0], [id |-> 2, x |-> 2, y |-> 0] >>
LandmarkIds == {MapLandmarks[i].id : i \in 1..Len(MapLandmarks)}

\* GPS estimates passed to init
InitPoses == { <<1, 1, 0>> }
\* The draws <<dx, dy, dtheta>> of one call, for the particles n = 1, 2, ...:
\* no noise (std = 0), and a sequence that tells the particles apart.
NoiseSeqs ==
  { [n \in 1..NumParticles |-> <<0, 0, 0>>],
    [n \in 1..NumParticles |-> <<n % 2, (n + 1) % 2, n % 3>>] }
\* what an uninitialized LandmarkObs can hold
GarbageObs == { [id |-> 0, x |-> 0, y |-> 0], [id |-> 1, x |-> 100, y |-> 100] }

VARIABLES
  particles,        \* std::vector<Particle> particles
  num_particles,    \* int num_particles
  is_initialized,   \* bool is_initialized
  oob,              \* an element outside particles has been accessed
  lastOp,           \* the operation that ran last
  steps,            \* operations run so far
  weightsUpdated,   \* updateWeights has completed at least once
  call,             \* arguments, old weights and weight products of the last updateWeights
  assoc,            \* arguments and result of the last direct dataAssociation call
  sentinels         \* the ids dataAssociation has assigned for an empty predicted list

vars == <<particles, num_particles, is_initialized, oob, lastOp, steps,
          weightsUpdated, call, assoc, sentinels>>

NoCall == [ range |-> 0, obs |-> << >>, fit |-> << >>, match |-> << >>,
            before |-> << >>, raw |-> << >> ]
NoAssoc == [ pred |-> << >>, obsIn |-> << >>, obsOut |-> << >> ]

(***************************************************************************)
(* Construction: an empty population, num_particles = 0, not initialized.  *)
(***************************************************************************)
Init ==
  /\ particles = << >>
  /\ num_particles = 0
  /\ is_initialized = FALSE
  /\ oob = FALSE
  /\ lastOp = "none"
  /\ steps = 0
  /\ weightsUpdated = FALSE
  /\ call = NoCall
  /\ assoc = NoAssoc
  /\ sentinels = {}

(***************************************************************************)
(* init, lines 26-58                                                       *)
(***************************************************************************)
\* A faulty variant of NewParticle: the ids count from 1.
NewParticleFromOne(n, x, y, theta, draws) ==
  [ id |-> n + 1,
    x |-> x + draws[1],
    y |-> y + draws[2],
    theta |-> theta + draws[3],
    weight |-> One,
    associations |-> << >>,
    sense_x |-> << >>,
    sense_y |-> << >> ]

\* lines 45-51: the n-th new particle (n counts from 0), draws = <<dx, dy, dtheta>>
NewParticle(n, x, y, theta, draws) ==
  [ id |-> n,
    x |-> x + draws[1],
    y |-> y + draws[2],
    theta |-> theta + draws[3],
    weight |-> One,
    associations |-> << >>,
    sense_x |-> << >>,
    sense_y |-> << >> ]

\* lines 35-56; nothing is removed from particles before the push_back loop
init(x, y, theta, noise) ==
  /\ num_particles' = NumParticles
  /\ particles' = particles \o
                  [n \in 1..NumParticles |-> NewParticle(n - 1, x, y, theta, noise[n])]
  /\ is_initialized' = TRUE
  /\ lastOp' = "init"
  /\ steps' = steps + 1
  /\ call' = NoCall
  /\ assoc' = NoAssoc
  /\ UNCHANGED <<oob, weightsUpdated, sentinels>>

(***************************************************************************)
(* prediction, lines 60-90                                                 *)
(***************************************************************************)
\* lines 77-88: one particle.  yaw_rate is in quarter turns per time unit and
\* velocity in the unit that makes velocity / yaw_rate the turning radius; a
\* yaw rate of the model is 0 or at least one unit, so the test against
\* 0.0001 is a test against 0.
Move(p, delta_t, velocity, yaw_rate, draws) ==
  IF Abs(yaw_rate) > 0
  THEN [p EXCEPT
          !.x = @ + (velocity \div yaw_rate)
                    * (Sin(p.theta + yaw_rate * delta_t) - Sin(p.theta)) + draws[1],
          !.y = @ + (velocity \div yaw_rate)
                    * (-Cos(p.theta + yaw_rate * delta_t) + Cos(p.theta)) + draws[2],
          !.theta = @ + yaw_rate * delta_t + draws[3]]
  ELSE [p EXCEPT
          !.x = @ + velocity * Cos(p.theta) * delta_t + draws[1],
          !.y = @ + velocity * Sin(p.theta) * delta_t + draws[2],
          !.theta = @ + yaw_rate * delta_t + draws[3]]

\* line 75: the loop runs over the first `count` particles
PredictionLoop(count, delta_t, velocity, yaw_rate, noise) ==
  IF count > Len(particles)
  THEN /\ oob' = TRUE
       /\ UNCHANGED particles
  ELSE /\ particles' = [n \in 1..Len(particles) |->
                          IF n <= count
                          THEN Move(particles[n], delta_t, velocity, yaw_rate, noise[n])
                          ELSE particles[n]]
       /\ UNCHANGED oob

\* A faulty variant of PredictionCount: the configured population size,
\* whatever has been initialized.
PredictionCountConfigured == NumParticles

PredictionCount == num_particles

prediction(delta_t, velocity, yaw_rate, noise) ==
  /\ PredictionLoop(PredictionCount, delta_t, velocity, yaw_rate, noise)
  /\ lastOp' = "prediction"
  /\ steps' = steps + 1
  /\ call' = NoCall
  /\ assoc' = NoAssoc
  /\ UNCHANGED <<num_particles, is_initialized, weightsUpdated, sentinels>>

(***************************************************************************)
(* dataAssociation, lines 92-118                                           *)
(***************************************************************************)
\* line 104: the initial minDist, 9.9e50 in the code: a number above every
\* (squared) distance the coordinates of the model produce.
LargeNumber == 1000000

\* A faulty variant of Closer: a later entry at the same distance wins.
CloserOrEqual(d, minDist) == d <= minDist

\* line 109
Closer(d, minDist) == d < minDist

\* lines 106-114: the scan of predicted from its k-th entry on
RECURSIVE ScanPredicted(_, _, _, _, _)
ScanPredicted(predicted, obs, k, minDist, bestFit) ==
  IF k > Len(predicted) THEN bestFit
  ELSE LET pred == predicted[k]
           d == distSq(pred.x, pred.y, obs.x, obs.y)
       IN  IF Closer(d, minDist)
           THEN ScanPredicted(predicted, obs, k + 1, d, pred)
           ELSE ScanPredicted(predicted, obs, k + 1, minDist, bestFit)

\* lines 102-116.  bestFit is declared without an initializer (line 105):
\* uninit is the value it happens to hold.
dataAssociation(predicted, observations, uninit) ==
  [m \in 1..Len(observations) |->
     [observations[m] EXCEPT
        !.id = ScanPredicted(predicted, observations[m], 1, LargeNumber, uninit).id]]

(***************************************************************************)
(* CalculateParticleWeight, lines 124-151                                  *)
(***************************************************************************)
\* lines 134-143.  pred_LM_match is declared without an initializer.
RECURSIVE FindMatch(_, _, _, _)
FindMatch(predictedLandMarks, lmId, k, uninit) ==
  IF k > Len(predictedLandMarks) THEN uninit
  ELSE IF lmId = predictedLandMarks[k].id THEN predictedLandMarks[k]
  ELSE FindMatch(predictedLandMarks, lmId, k + 1, uninit)

\* A faulty variant of InitialWeight: the product starts from the old weight.
InitialWeightKept(particle) == particle.weight

\* line 127
InitialWeight(particle) == One

\* lines 130-147, from the n-th association on
RECURSIVE WeightLoop(_, _, _, _, _)
WeightLoop(particle, predictedLandMarks, uninit, n, weight) ==
  IF n > Len(particle.associations) THEN weight
  ELSE LET pred_LM_match == FindMatch(predictedLandMarks, particle.associations[n], 1, uninit)
       IN  WeightLoop(particle, predictedLandMarks, uninit, n + 1,
                      RatMul(weight, multiv_prob(particle.sense_x[n], particle.sense_y[n],
                                                 pred_LM_match.x, pred_LM_match.y)))

CalculateParticleWeight(particle, predictedLandMarks, uninit) ==
  [particle EXCEPT
     !.weight = WeightLoop(particle, predictedLandMarks, uninit, 1, InitialWeight(particle))]

(***************************************************************************)
(* updateWeights, lines 153-234                                            *)
(***************************************************************************)
\* lines 180-187
ToMapCoordinates(p, observations) ==
  [m \in 1..Len(observations) |->
     [ id |-> observations[m].id,
       x |-> p.x + Cos(p.theta) * observations[m].x - Sin(p.theta) * observations[m].y,
       y |-> p.y + Sin(p.theta) * observations[m].x + Cos(p.theta) * observations[m].y ]]

\* line 198, for sensor_range >= 0
InSensorRange(d2, sensor_range) == d2 < sensor_range * sensor_range

\* lines 190-202
PredictedLMs(p, sensor_range) ==
  LET Near(lm) == InSensorRange(distSq(lm.x, lm.y, p.x, p.y), sensor_range)
  IN  SelectSeq(MapLandmarks, Near)

\* lines 176-218: one particle
UpdateParticle(p, sensor_range, observations, uninitFit, uninitMatch) ==
  LET predictedLMs == PredictedLMs(p, sensor_range)
      obsMap == dataAssociation(predictedLMs, ToMapCoordinates(p, observations), uninitFit)
      copied == [p EXCEPT
                   !.sense_x = [m \in 1..Len(obsMap) |-> obsMap[m].x],
                   !.sense_y = [m \in 1..Len(obsMap) |-> obsMap[m].y],
                   !.associations = [m \in 1..Len(obsMap) |-> obsMap[m].id]]
  IN  CalculateParticleWeight(copied, predictedLMs, uninitMatch)

RECURSIVE SumWeights(_, _)
SumWeights(ws, n) == IF n = 0 THEN Zero ELSE RatAdd(SumWeights(ws, n - 1), ws[n])

\* line 227: 1e-5 = 1 / EpsDen
EpsDen == 100000
\* sum > 1e-5, i.e. EpsDen * n > d, i.e. n > d \div EpsDen
ExceedsEps(sum) == sum[1] > sum[2] \div EpsDen

\* A faulty variant of NormalizeWeights: every non-zero sum is divided by.
NormalizeWeightsAlways(ws) ==
  LET sum == SumWeights(ws, Len(ws))
  IN  IF sum # Zero THEN [n \in 1..Len(ws) |-> RatDiv(ws[n], sum)] ELSE ws

\* lines 222-233, on the weights of the first num_particles particles
NormalizeWeights(ws) ==
  LET sum == SumWeights(ws, Len(ws))
  IN  IF ExceedsEps(sum) THEN [n \in 1..Len(ws) |-> RatDiv(ws[n], sum)] ELSE ws

\* lines 173-233: the population after the call, and the weights as they
\* were before the normalization (raw)
ScoreAndNormalize(sensor_range, observations, uninitFit, uninitMatch) ==
  LET scored == [n \in 1..num_particles |->
                   UpdateParticle(particles[n], sensor_range, observations,
                                  uninitFit, uninitMatch)]
      raw == [n \in 1..num_particles |-> scored[n].weight]
      normalized == NormalizeWeights(raw)
  IN  [ particles |-> [n \in 1..Len(particles) |->
                         IF n <= num_particles
                         THEN [scored[n] EXCEPT !.weight = normalized[n]]
                         ELSE particles[n]],
        raw |-> raw ]

updateWeights(sensor_range, observations, uninitFit, uninitMatch) ==
  /\ IF num_particles > Len(particles)
     THEN /\ oob' = TRUE
          /\ call' = NoCall
          /\ UNCHANGED particles
     ELSE \E r \in {ScoreAndNormalize(sensor_range, observations, uninitFit, uninitMatch)} :
            /\ particles' = r.particles
            /\ call' = [ range |-> sensor_range, obs |-> observations,
                         fit |-> uninitFit, match |-> uninitMatch,
                         before |-> [n \in 1..num_particles |-> particles[n].weight],
                         raw |-> r.raw ]
            /\ UNCHANGED oob
  /\ weightsUpdated' = TRUE
  /\ lastOp' = "updateWeights"
  /\ steps' = steps + 1
  /\ assoc' = NoAssoc
  /\ UNCHANGED <<num_particles, is_initialized, sentinels>>

(***************************************************************************)
(* resample, lines 236-265                                                 *)
(***************************************************************************)
\* line 253: the indices std::discrete_distribution can return for the
\* weights of the first num_particles particles.  An index has probability
\* weight / sum; when the sum is 0 the distribution's precondition is broken
\* and any index may come out.
DrawableIndices ==
  LET count == IF num_particles > Len(particles) THEN 0 ELSE num_particles
      ws == [n \in 1..count |-> particles[n].weight]
  IN  IF SumWeights(ws, count) = Zero
      THEN 1..num_particles
      ELSE {i \in 1..count : ws[i] # Zero}

resample(pIdx) ==
  /\ IF num_particles > Len(particles)
     THEN /\ oob' = TRUE
          /\ UNCHANGED particles
     ELSE /\ particles' = [n \in 1..num_particles |-> particles[pIdx[n]]]
          /\ UNCHANGED oob
  /\ lastOp' = "resample"
  /\ steps' = steps + 1
  /\ call' = NoCall
  /\ assoc' = NoAssoc
  /\ UNCHANGED <<num_particles, is_initialized, weightsUpdated, sentinels>>

(***************************************************************************)
(* SetAssociations, lines 267-279, on the n-th particle of the population  *)
(***************************************************************************)
SetAssociations(n, associations, sense_x, sense_y) ==
  /\ n \in 1..Len(particles)
  /\ particles' = [particles EXCEPT ![n] = [@ EXCEPT !.associations = associations,
                                                     !.sense_x = sense_x,
                                                     !.sense_y = sense_y]]
  /\ lastOp' = "SetAssociations"
  /\ steps' = steps + 1
  /\ call' = NoCall
  /\ assoc' = NoAssoc
  /\ UNCHANGED <<num_particles, is_initialized, oob, weightsUpdated, sentinels>>

(***************************************************************************)
(* A direct call of dataAssociation: the caller's observations vector is   *)
(* rewritten in place; the filter is not touched.                          *)
(***************************************************************************)
DataAssociationCall(predicted, observations, uninit) ==
  /\ \E out \in {dataAssociation(predicted, observations, uninit)} :
       /\ assoc' = [ pred |-> predicted, obsIn |-> observations, obsOut |-> out ]
       /\ sentinels' = IF predicted = << >>
                       THEN sentinels \cup {out[m].id : m \in 1..Len(out)}
                       ELSE sentinels
  /\ lastOp' = "dataAssociation"
  /\ UNCHANGED <<particles, num_particles, is_initialized, oob, steps,
                 weightsUpdated, call>>

(***************************************************************************)
(* The operations with their inputs.                                       *)
(***************************************************************************)
SeqsUpTo(S, n) == UNION { [1..k -> S] : k \in 0..n }

DeltaTs == {1}
Velocities == {1}
YawRates == {0, 1}
\* a range that reaches no landmark, and one that reaches some
SensorRanges == {0, 3}
\* observations in the vehicle frame; their id is not assigned yet
ObsCycle == << [id |-> 0, x |-> 0, y |-> 0], [id |-> 0, x |-> 2, y |-> 0] >>
\* the observation lists: k observations taken in turn from ObsCycle
ObsLists == { [m \in 1..k |-> ObsCycle[((m - 1) % 2) + 1]] : k \in 0..MaxObs }
DefaultGarbage == [id |-> 0, x |-> 0, y |-> 0]

Initialize ==
  /\ steps < MaxSteps
  /\ \E pose \in InitPoses, noise \in NoiseSeqs :
       init(pose[1], pose[2], pose[3], noise)

Predict ==
  /\ steps < MaxSteps
  /\ \E delta_t \in DeltaTs, velocity \in Velocities, yaw_rate \in YawRates,
        noise \in NoiseSeqs :
       prediction(delta_t, velocity, yaw_rate, noise)

\* The uninitialized values are read only for a particle with observations
\* and no landmark in range; in a call that reads none, one value stands for
\* all.  Within one call the two uninitialized variables hold the same
\* value here.
UninitUsed(sensor_range, observations) ==
  /\ Len(observations) > 0
  /\ \E n \in 1..num_particles :
       n <= Len(particles) /\ PredictedLMs(particles[n], sensor_range) = << >>

UninitChoices(sensor_range, observations) ==
  IF UninitUsed(sensor_range, observations) THEN GarbageObs ELSE {DefaultGarbage}

UpdateWeights ==
  /\ steps < MaxSteps
  /\ \E sensor_range \in SensorRanges, observations \in ObsLists :
       \E uninit \in UninitChoices(sensor_range, observations) :
         updateWeights(sensor_range, observations, uninit, uninit)

Resample ==
  /\ steps < MaxSteps
  /\ \E pIdx \in [1..num_particles -> DrawableIndices] : resample(pIdx)

\* arguments of SetAssociations: the three vectors need not be equally long
SetAssocArgs ==
  { << <<1>>, <<0>>, <<0>> >>,
    << <<1>>, << >>, <<0>> >> }

SetAssoc ==
  /\ steps < MaxSteps
  /\ \E n \in 1..Len(particles), args \in SetAssocArgs :
       SetAssociations(n, args[1], args[2], args[3])

\* The life cycle of a filter run: init once, then the cycle operations in
\* any order.  init is only called while is_initialized is false.
Next ==
  \/ (~is_initialized /\ Initialize)
  \/ Predict
  \/ UpdateWeights
  \/ Resample

Spec == Init /\ [][Next]_vars

\* Any sequence of the public operations, init and SetAssociations included.
NextAnyOrder ==
  \/ Initialize
  \/ Predict
  \/ UpdateWeights
  \/ Resample
  \/ SetAssoc

SpecAnyOrder == Init /\ [][NextAnyOrder]_vars

\* dataAssociation on its own, on lists of landmark observations.
AssocPredicted ==
  { [id |-> 1, x |-> 0, y |-> 0], [id |-> 2, x |-> 2, y |-> 0], [id |-> 3, x |-> 1, y |-> 2] }
\* the observation lists: k observations taken in turn from AssocObsCycle
\* (each observation is handled on its own, whatever the others are)
AssocObsCycle ==
  << [id |-> 0, x |-> 1, y |-> 0], [id |-> 7, x |-> 0, y |-> 2], [id |-> 0, x |-> 2, y |-> 1] >>
AssocObsLists == { [m \in 1..k |-> AssocObsCycle[((m - 1) % 3) + 1]] : k \in 0..MaxObs }

Associate ==
  \E predicted \in SeqsUpTo(AssocPredicted, MaxPred),
     observations \in AssocObsLists,
     uninit \in GarbageObs :
    /\ (predicted # << >> \/ observations = << >>) => uninit = DefaultGarbage
    /\ DataAssociationCall(predicted, observations, uninit)

NextAssoc == Associate

SpecAssoc == Init /\ [][NextAssoc]_vars
(***************************************************************************)
(* Properties.                                                             *)
(***************************************************************************)
\* C1: right after init the population holds exactly num_particles
\* particles, num_particles being the configured count; every particle has
\* weight 1.0 and the i-th particle (i counting from 0) has id i.
InitPopulation ==
  lastOp = "init" =>
    /\ num_particles = NumParticles
    /\ Len(particles) = NumParticles
    /\ \A i \in 0..(NumParticles - 1) :
         particles[i + 1].id = i /\ particles[i + 1].weight = One

\* a state right after init
InitPopulationReached == lastOp = "init" /\ Len(particles) > 0

\* C2: in every state after the first init, whatever public operations have
\* run (a repeated init included), the population holds exactly
\* num_particles particles.
PopulationSizeInvariant == is_initialized => Len(particles) = num_particles

\* a step of prediction, updateWeights or resample taken before any init
BeforeInitStep ==
  (~is_initialized /\ lastOp' \in {"prediction", "updateWeights", "resample"}) =>
    /\ particles' = particles
    /\ num_particles' = num_particles
    /\ is_initialized' = is_initialized
    /\ ~oob'

NearestFirstWins ==
  (lastOp = "dataAssociation" /\ assoc.pred # << >>) =>
    /\ Len(assoc.obsOut) = Len(assoc.obsIn)
    /\ \A m \in 1..Len(assoc.obsIn) :
         LET o == assoc.obsIn[m]
             D(k) == distSq(assoc.pred[k].x, assoc.pred[k].y, o.x, o.y)
             first == CHOOSE k \in 1..Len(assoc.pred) :
                        /\ \A j \in 1..Len(assoc.pred) : D(k) <= D(j)
                        /\ \A j \in 1..(k - 1) : D(k) < D(j)
         IN  /\ assoc.obsOut[m].id = assoc.pred[first].id
             /\ assoc.obsOut[m].x = o.x
             /\ assoc.obsOut[m].y = o.y

\* a call in which two predicted entries with different ids are both at the
\* minimum distance of an observation
NearestFirstWinsReached ==
  /\ lastOp = "dataAssociation"
  /\ Len(assoc.pred) = 2
  /\ assoc.pred[1].id # assoc.pred[2].id
  /\ \E m \in 1..Len(assoc.obsIn) :
       distSq(assoc.pred[1].x, assoc.pred[1].y, assoc.obsIn[m].x, assoc.obsIn[m].y)
         = distSq(assoc.pred[2].x, assoc.pred[2].y, assoc.obsIn[m].x, assoc.obsIn[m].y)

\* C5: for an empty predicted list every observation is left with one fixed
\* sentinel id: the same in every call, and the id of no map landmark.
SentinelIdentity ==
  /\ Cardinality(sentinels) <= 1
  /\ sentinels \cap LandmarkIds = {}

\* C6: with S the sum of the weight products of the call: if S > 1e-5 every
\* weight after the call is its product divided by S and the weights sum to
\* 1; otherwise every weight is exactly its product.
NormalizationRule ==
  lastOp = "updateWeights" =>
    LET S == SumWeights(call.raw, Len(call.raw))
        after == [n \in 1..num_particles |-> particles[n].weight]
    IN  /\ Len(call.raw) = num_particles
        /\ IF S[1] > S[2] \div EpsDen
           THEN /\ \A n \in 1..num_particles : RatMul(after[n], S) = call.raw[n]
                /\ SumWeights(after, num_particles) = One
           ELSE after = call.raw

\* a call whose sum exceeds the threshold and is not 1: the division changes
\* a weight
NormalizationRuleReached ==
  /\ lastOp = "updateWeights"
  /\ LET S == SumWeights(call.raw, Len(call.raw))
     IN  S[1] > S[2] \div EpsDen /\ S # One
  /\ \E n \in 1..num_particles : particles[n].weight # call.raw[n]

\* a resample step copies particles of positive weight
ResampleStep ==
  lastOp' = "resample" =>
    /\ Len(particles') = num_particles
    /\ \A n \in 1..Len(particles') :
         \E m \in 1..Len(particles) :
           particles'[n] = particles[m] /\ particles[m].weight # Zero

\* C7: resample leaves num_particles particles, each equal in every field to
\* a particle of the old population whose weight was strictly positive.
PositiveWeightCopies == [][ResampleStep]_vars

\* C8: once updateWeights has completed, associations, sense_x and sense_y of
\* every particle are equally long; right after updateWeights they are as
\* long as the observation list of the call.
ParallelBookkeeping ==
  weightsUpdated =>
    /\ \A n \in 1..Len(particles) :
         /\ Len(particles[n].associations) = Len(particles[n].sense_x)
         /\ Len(particles[n].sense_x) = Len(particles[n].sense_y)
    /\ lastOp = "updateWeights" =>
         \A n \in 1..num_particles :
           Len(particles[n].associations) = Len(call.obs)

\* the product of the likelihoods of the observations m..last of particle p
\* whose association is the id of a candidate
RECURSIVE FoundProduct(_, _, _)
FoundProduct(p, cands, m) ==
  IF m > Len(p.associations) THEN One
  ELSE LET found == {k \in 1..Len(cands) : cands[k].id = p.associations[m]}
           k == CHOOSE k \in found : \A j \in found : k <= j
           factor == IF found = {} THEN One
                     ELSE multiv_prob(p.sense_x[m], p.sense_y[m], cands[k].x, cands[k].y)
       IN  RatMul(factor, FoundProduct(p, cands, m + 1))

\* C9: the weight product of a particle has one factor for each observation
\* whose association is found among the candidates, and none for the others;
\* it is 1.0 when none is found.
FoundFactorsOnly ==
  lastOp = "updateWeights" =>
    \A n \in 1..Len(call.raw) :
      call.raw[n] = FoundProduct(particles[n], PredictedLMs(particles[n], call.range), 1)

\* what a prediction step and an updateWeights step leave alone; OtherWeights
\* are weights the particle might have had instead
OtherWeights == {Zero, One, <<1, 2>>}
FrameStep ==
  /\ lastOp' = "prediction" =>
       /\ Len(particles') = Len(particles)
       /\ \A n \in 1..Len(particles) :
            [particles'[n] EXCEPT !.x = particles[n].x, !.y = particles[n].y,
                                  !.theta = particles[n].theta] = particles[n]
  /\ lastOp' = "updateWeights" =>
       /\ Len(particles') = Len(particles)
       /\ \A n \in 1..Len(particles) :
            [particles'[n] EXCEPT !.weight = particles[n].weight,
                                  !.associations = particles[n].associations,
                                  !.sense_x = particles[n].sense_x,
                                  !.sense_y = particles[n].sense_y] = particles[n]
       /\ \A n \in 1..Len(call'.raw), w \in OtherWeights :
            UpdateParticle([particles[n] EXCEPT !.weight = w], call'.range, call'.obs,
                           call'.fit, call'.match).weight = call'.raw[n]

\* C10: prediction changes x, y and theta only; updateWeights changes weight,
\* associations, sense_x and sense_y only, and its weight product is the same
\* whatever weight the particle had before; both keep the order and the
\* number of the particles.
FrameConditions == [][FrameStep]_vars

\* an updateWeights on a particle whose weight was not 1.0 and whose new
\* product is neither 0 nor 1
FrameConditionsReached ==
  /\ lastOp = "updateWeights"
  /\ \E n \in 1..Len(call.raw) :
       call.before[n] # One /\ call.raw[n] # Zero /\ call.raw[n] # One

=============================================================================
